---- MODULE Spec2Model ----
(***************************************************************************)
(* A model of the storage layer of electrs (src/src/store.rs): DBStore, a  *)
(* handle on a RocksDB dataset, with its bulk-import and durable modes,    *)
(* its read and write capabilities and the txid collision scanner.         *)
(*                                                                         *)
(* The storage engine is modelled by what the calls of store.rs do to it:  *)
(*   sst      the table files of a path (stable storage),                  *)
(*   wal      the write-ahead log of a path, a sequence of batches, of     *)
(*            which the first `synced` are forced to stable storage,       *)
(*   mem      the memtable of the open handle (lost when the process dies),*)
(*   lock     the number of handles open on a path (the engine's LOCK).    *)
(* Keys and values are byte strings, tables are kept sorted in             *)
(* byte-lexicographic key order as the engine keeps them.                  *)
(***************************************************************************)
EXTENDS Integers, Sequences, FiniteSets, TLC

\* ------------------------------------------------------------------ bounds

\* Rows set through write and put over one run of the store process.
MaxSets == 3
\* Longest key of the scan specification, besides the keys of P5 and E2E-2.
MaxKeyLen == 1
\* Most rows loaded in the scan specification.
MaxRows == 3
\* The iterations of the serving loop that are told apart: the count of
\* iterations stays at this number once it is reached.
MaxIterations == 2

\* ------------------------------------------------------------ byte strings

\* The bytes keys are made of: b"T" and b"U", a tag and the adjacent tag.
Bytes == {84, 85}
T == <<84>>

\* All byte strings of length n, and of length at most n.
RECURSIVE StringsOfLen(_)
StringsOfLen(n) ==
  IF n = 0 THEN {<<>>}
  ELSE {<<b>> \o s : b \in Bytes, s \in StringsOfLen(n - 1)}

StringsUpTo(n) == UNION {StringsOfLen(i) : i \in 0..n}

\* Byte-lexicographic order of the engine's default comparator: a proper
\* prefix sorts before its extensions.
RECURSIVE LexLess(_, _)
LexLess(a, b) ==
  IF a = <<>> THEN b # <<>>
  ELSE IF b = <<>> THEN FALSE
  ELSE IF Head(a) # Head(b) THEN Head(a) < Head(b)
  ELSE LexLess(Tail(a), Tail(b))

\* <[u8]>::starts_with
starts_with(key, prefix) ==
  /\ Len(prefix) <= Len(key)
  /\ SubSeq(key, 1, Len(prefix)) = prefix

\* prev.iter().zip(key.iter()).take_while(|(a, b)| a == b).count()
RECURSIVE common_run(_, _)
common_run(a, b) ==
  IF a = <<>> \/ b = <<>> THEN 0
  ELSE IF Head(a) # Head(b) THEN 0
  ELSE 1 + common_run(Tail(a), Tail(b))

RECURSIVE Reverse(_)
Reverse(s) == IF s = <<>> THEN <<>> ELSE Reverse(Tail(s)) \o <<Head(s)>>

HexDigits ==
  <<"0", "1", "2", "3", "4", "5", "6", "7", "8", "9", "a", "b", "c", "d", "e", "f">>

\* hex::encode: two lower-case digits per byte, high nibble first.
RECURSIVE hex_encode(_)
hex_encode(s) ==
  IF s = <<>> THEN <<>>
  ELSE <<HexDigits[(Head(s) \div 16) + 1], HexDigits[(Head(s) % 16) + 1]>>
         \o hex_encode(Tail(s))

\* revhex: the bytes in reversed order, hex encoded.
revhex(value) == hex_encode(Reverse(value))

\* ------------------------------------------------------------------ tables

Row(k, v) == [key |-> k, value |-> v]

\* One set of a row into a sorted table: the row replaces a row of the same
\* key and lands at the key's place in the order.
TablePut(t, row) ==
  SelectSeq(t, LAMBDA r : LexLess(r.key, row.key))
    \o <<row>>
    \o SelectSeq(t, LAMBDA r : LexLess(row.key, r.key))

\* A WriteBatch applied to a table: its sets in the order they were added.
RECURSIVE ApplyBatch(_, _)
ApplyBatch(t, rows) ==
  IF rows = <<>> THEN t
  ELSE ApplyBatch(TablePut(t, Head(rows)), Tail(rows))

\* Several batches applied in order (the replay of a log).
RECURSIVE ApplyAll(_, _)
ApplyAll(t, batches) ==
  IF batches = <<>> THEN t
  ELSE ApplyAll(ApplyBatch(t, Head(batches)), Tail(batches))

\* The point lookup of a table: <<>> for absent, <<value>> for present.
Lookup(t, key) ==
  LET hit == SelectSeq(t, LAMBDA r : r.key = key)
  IN  IF hit = <<>> THEN <<>> ELSE <<hit[1].value>>

\* iter.seek(prefix): the position of the first row whose key is not below
\* `prefix` (Len(t) + 1: the iterator is not valid).
Seek(t, prefix) ==
  Len(SelectSeq(t, LAMBDA r : LexLess(r.key, prefix))) + 1

\* ------------------------------------------------- the reads of a table

\* ReadStore::scan over the rows `t` the iterator delivers: from the seek
\* position, rows are pushed until a key does not start with `prefix`.
RECURSIVE scan_loop(_, _, _, _)
scan_loop(t, i, prefix, rows) ==
  IF i > Len(t) THEN rows
  ELSE IF ~starts_with(t[i].key, prefix) THEN rows
  ELSE scan_loop(t, i + 1, prefix, Append(rows, Row(t[i].key, t[i].value)))

\* A scan without the starts_with test: every row from the seek position on.
scan_to_the_end(t, prefix) == SubSeq(t, Seek(t, prefix), Len(t))

scan(t, prefix) == scan_loop(t, Seek(t, prefix), prefix, <<>>)

\* ReadStore::get
get(t, key) == Lookup(t, key)

\* The bytes of `s` after the first n: &s[n..]
SliceFrom(s, n) == SubSeq(s, n + 1, Len(s))

\* What one eprintln! of max_collision prints: the length and the two
\* suffixes, each through revhex.
Report(collision_len, prefix_len, prev, key) ==
  [len |-> collision_len - prefix_len,
   a   |-> revhex(SliceFrom(prev, prefix_len)),
   b   |-> revhex(SliceFrom(key, prefix_len))]

\* A max_collision loop without the starts_with test: it runs on over the keys
\* that follow the tagged ones.
RECURSIVE max_collision_loop_no_break(_, _, _, _, _, _)
max_collision_loop_no_break(t, i, prefix, prev, collision_max, reports) ==
  IF i > Len(t) THEN reports
  ELSE
    LET key == t[i].key
        collision_len == IF prev = <<>> THEN 0 ELSE common_run(prev[1], key)
        found == prev # <<>> /\ collision_len > collision_max
    IN  max_collision_loop_no_break(
          t, i + 1, prefix, <<key>>,
          IF found THEN collision_len ELSE collision_max,
          IF found
            THEN Append(reports, Report(collision_len, Len(prefix), prev[1], key))
            ELSE reports)

\* DBStore::max_collision over the rows `t` the raw iterator delivers; prev is
\* <<>> (None) or <<key>> (Some(key)). The result is the sequence of reports.
RECURSIVE max_collision_loop(_, _, _, _, _, _)
max_collision_loop(t, i, prefix, prev, collision_max, reports) ==
  IF i > Len(t) THEN reports
  ELSE IF ~starts_with(t[i].key, prefix) THEN reports
  ELSE
    LET key == t[i].key
        collision_len == IF prev = <<>> THEN 0 ELSE common_run(prev[1], key)
        found == prev # <<>> /\ collision_len > collision_max
    IN  max_collision_loop(
          t, i + 1, prefix, <<key>>,
          IF found THEN collision_len ELSE collision_max,
          IF found
            THEN Append(reports, Report(collision_len, Len(prefix), prev[1], key))
            ELSE reports)

\* A max_collision that never moves prev on: every key is compared with the
\* first key of the pass.
RECURSIVE stale_prev_loop(_, _, _, _, _, _)
stale_prev_loop(t, i, prefix, first, collision_max, reports) ==
  IF i > Len(t) THEN reports
  ELSE IF ~starts_with(t[i].key, prefix) THEN reports
  ELSE
    LET collision_len == common_run(first, t[i].key)
        found == collision_len > collision_max
    IN  stale_prev_loop(
          t, i + 1, prefix, first,
          IF found THEN collision_len ELSE collision_max,
          IF found
            THEN Append(reports, Report(collision_len, Len(prefix), first, t[i].key))
            ELSE reports)

max_collision_stale_prev(t, prefix) ==
  LET i == Seek(t, prefix)
  IN  IF i > Len(t) THEN <<>>
      ELSE stale_prev_loop(t, i + 1, prefix, t[i].key, 0, <<>>)

max_collision(t, prefix) ==
  max_collision_loop(t, Seek(t, prefix), prefix, <<>>, 0, <<>>)

\* --------------------------------------------------------------- the state

\* The dataset locations of the file system, and the one the store process
\* is configured with (config.db_path).
Paths == {"db", "alt"}
db_path == "db"
\* The keys, values and prefixes callers use in the store specifications.
StoreKeys == {<<84>>, <<84, 85>>}
Values == {<<1>>, <<2>>}
StoreRows == {[key |-> k, value |-> v] : k \in StoreKeys, v \in Values}
StorePrefixes == {<<>>, <<84>>, <<84, 85>>, <<85>>}

VARIABLES
  pc,           \* the store process: "down", "open" (it holds a handle),
                \* "reopen" (inside enable_compaction, the old handle dropped),
                \* "panic" (an unwrap failed)
  opts,         \* DBStore.opts of the handle: [path, bulk_import]
  sst,          \* path -> the table files: a sorted table
  wal,          \* path -> the write-ahead log: a sequence of batches
  synced,       \* path -> how many batches of wal are on stable storage
  lock,         \* path -> the number of handles open on it
  mem,          \* the memtable of the handle: a sorted table
  unpersisted,  \* the memtable holds rows that are in no log
  ret,          \* what the most recent call returned
  it,           \* the iterator of a second caller inside scan
  used,         \* the rows set since the first open
  last,         \* history: key -> the value of the most recent set of the key
                \* on the handle (<<>>: none, <<v>>: v)
  before,       \* history: the rows of the handle when enable_compaction began
  before_flush, \* history: the rows of the handle before the first of the
                \* flush calls made since the last write (<<>>: none made)
  exists,       \* the paths that exist in the file system
  db_opts,      \* the rocksdb::Options the engine of the handle was opened with
  srv,          \* the server process (bin/electrs.rs): where run_server and
                \* main stand, and what they have done
  signal,       \* the shutdown channel of the server: "none" or "raised"
  tool          \* the collision tool (examples/txid_collisions.rs)

vars ==
  <<pc, opts, sst, wal, synced, lock, mem, unpersisted, ret, it, used, last,
    before, before_flush, exists, db_opts, srv, signal, tool>>

\* The variables of the processes around the store.
procs == <<srv, signal, tool>>

NoOpts == [path |-> db_path, bulk_import |-> TRUE]
Idle ==
  [state |-> "idle", prefix |-> <<>>, snap |-> <<>>, pos |-> 0, rows |-> <<>>,
   at |-> <<>>]
NoRet == [op |-> "none"]
NeverSet == [k \in StoreKeys |-> <<>>]
\* rocksdb::Options::default(), of what open_opts sets: the state of db_opts
\* while there is no handle.
NoDbOpts == [create_if_missing |-> FALSE, disable_auto_compactions |-> FALSE]
\* The server before main runs, and the tool before it runs.
NoServer ==
  [pc |-> "off", iteration |-> 0, server |-> 0, steps |-> <<>>, wait |-> "none",
   result |-> "none", exit |-> -1]
NoTool == [pc |-> "off", result |-> "none", scanned |-> <<>>]

\* The rows a reader of the handle sees: the memtable over the table files.
View == ApplyBatch(sst[opts.path], mem)

\* The rows of path p that are on stable storage: what a recovery after a
\* power loss finds, the table files and the forced part of the log.
Stable(p) == ApplyAll(sst[p], SubSeq(wal[p], 1, synced[p]))

Init ==
  /\ pc = "down"
  /\ opts = NoOpts
  /\ sst = [p \in Paths |-> <<>>]
  /\ wal = [p \in Paths |-> <<>>]
  /\ synced = [p \in Paths |-> 0]
  /\ lock = [p \in Paths |-> 0]
  /\ mem = <<>>
  /\ unpersisted = FALSE
  /\ ret = NoRet
  /\ it = Idle
  /\ used = 0
  /\ last = NeverSet
  /\ before = <<>>
  /\ before_flush = <<>>
  /\ exists = {}
  /\ db_opts = NoDbOpts
  /\ srv = NoServer
  /\ signal = "none"
  /\ tool = NoTool

\* ----------------------------------------------------- the engine's calls

\* rocksdb::DB::open on a path no handle holds: the log is replayed into the
\* table files, the handle takes the lock and starts with an empty memtable.
DB_open(p) ==
  /\ lock[p] = 0
  /\ sst' = [sst EXCEPT ![p] = ApplyAll(sst[p], wal[p])]
  /\ wal' = [wal EXCEPT ![p] = <<>>]
  /\ synced' = [synced EXCEPT ![p] = 0]
  /\ lock' = [lock EXCEPT ![p] = 1]
  /\ mem' = <<>>
  /\ unpersisted' = FALSE

\* The drop of rocksdb::DB: the engine closes the dataset; a memtable with
\* rows that are in no log is flushed to the table files first, and the lock
\* is released.
DB_close ==
  LET p == opts.path
  IN  /\ sst' = IF unpersisted THEN [sst EXCEPT ![p] = View] ELSE sst
      /\ wal' = IF unpersisted THEN [wal EXCEPT ![p] = <<>>] ELSE wal
      /\ synced' = IF unpersisted THEN [synced EXCEPT ![p] = 0] ELSE synced
      /\ lock' = [lock EXCEPT ![p] = 0]
      /\ mem' = <<>>
      /\ unpersisted' = FALSE

\* db.write_opt(batch, &opts) with opts.set_sync(sync) and
\* opts.disable_wal(disable_wal): the batch is applied to the memtable as a
\* whole; it is appended to the log unless the log is disabled (an empty batch
\* adds no rows to the log), and the log is forced to stable storage when sync
\* is set.
write_opt(batch, sync, disable_wal) ==
  LET p == opts.path
      logged == IF disable_wal \/ batch = <<>> THEN wal[p] ELSE Append(wal[p], batch)
  IN  /\ mem' = ApplyBatch(mem, batch)
      /\ wal' = [wal EXCEPT ![p] = logged]
      /\ synced' = IF sync /\ ~disable_wal
                     THEN [synced EXCEPT ![p] = Len(logged)]
                     ELSE synced
      /\ unpersisted' = (unpersisted \/ (disable_wal /\ batch # <<>>))
      /\ UNCHANGED <<sst, lock>>

\* The engine writes the memtable out to the table files (a full write
\* buffer, or the flush compact_range starts with); the log it covers is
\* obsolete.
MemtableFlush ==
  LET p == opts.path
  IN  /\ sst' = [sst EXCEPT ![p] = View]
      /\ wal' = [wal EXCEPT ![p] = <<>>]
      /\ synced' = [synced EXCEPT ![p] = 0]
      /\ mem' = <<>>
      /\ unpersisted' = FALSE
      /\ UNCHANGED lock

\* ---------------------------------------------------------------- history

\* The value of the row latest in `rows` that sets `key` (<<>>: none does).
LatestIn(rows, key) ==
  LET at == {i \in 1..Len(rows) : rows[i].key = key}
  IN  IF at = {} THEN <<>>
      ELSE <<rows[CHOOSE i \in at : \A j \in at : j <= i].value>>

\* `last` after the rows of one call were set.
LastAfter(rows) ==
  [k \in StoreKeys |-> IF LatestIn(rows, k) = <<>> THEN last[k] ELSE LatestIn(rows, k)]

\* ------------------------------------------------ the operations of DBStore

\* The rocksdb::Options open_opts builds for the handle options o.
db_opts_of(o) ==
  [create_if_missing |-> TRUE, disable_auto_compactions |-> o.bulk_import]

\* DBStore::open_opts: the engine opens opts.path, which it creates when it is
\* missing, and the handle keeps opts.
open_opts(o) ==
  /\ DB_open(o.path)
  /\ db_opts' = db_opts_of(o)
  /\ exists' = IF db_opts_of(o).create_if_missing THEN exists \cup {o.path} ELSE exists
  /\ opts' = o
  /\ pc' = "open"

\* DBStore::open, from a process that holds no handle: bulk mode. The history
\* of the new handle starts from the rows the recovery found.
open(p) ==
  /\ pc = "down"
  /\ open_opts([path |-> p, bulk_import |-> TRUE])
  /\ ret' = [op |-> "open"]
  /\ last' = [k \in StoreKeys |-> Lookup(ApplyAll(sst[p], wal[p]), k)]
  /\ UNCHANGED <<it, used, before, before_flush>>

\* DB::open(..).unwrap() in open_opts, called on a path that has an open
\* handle: the engine refuses the lock and the opener panics; nothing is
\* opened.
open_locked(p) ==
  /\ lock[p] > 0
  /\ ret' = [op |-> "open_rejected"]
  /\ UNCHANGED <<exists, db_opts, pc, opts, sst, wal, synced, lock, mem, unpersisted, it, used,
                 last, before, before_flush>>

\* A batch built back to front: the rows of write in reversed order.
WriteBatchReversed(rows) == Reverse(rows)

\* The WriteBatch that write builds: one put per row, in the order of rows.
RECURSIVE WriteBatch(_)
WriteBatch(rows) ==
  IF rows = <<>> THEN <<>>
  ELSE <<Head(rows)>> \o WriteBatch(Tail(rows))

\* The WriteOptions of write: sync and the log follow the mode of the handle.
write_options == [sync |-> ~opts.bulk_import, disable_wal |-> opts.bulk_import]

\* The WriteOptions of db.put: the engine's defaults, whatever the mode.
put_options == [sync |-> FALSE, disable_wal |-> FALSE]

\* The WriteOptions of flush.
flush_options == [sync |-> TRUE, disable_wal |-> FALSE]

\* A write that puts row by row and stops after the first row.
write_row_by_row(rows) ==
  /\ pc = "open"
  /\ write_opt(IF rows = <<>> THEN <<>> ELSE <<Head(rows)>>,
               write_options.sync, write_options.disable_wal)
  /\ ret' = [op |-> "write", options |-> write_options]
  /\ UNCHANGED <<exists, db_opts, pc, opts, it>>

\* WriteStore::write
write(rows) ==
  /\ pc = "open"
  /\ write_opt(WriteBatch(rows), write_options.sync, write_options.disable_wal)
  /\ ret' = [op |-> "write", options |-> write_options]
  /\ UNCHANGED <<exists, db_opts, pc, opts, it>>

\* DBStore::put
put(key, value) ==
  /\ pc = "open"
  /\ write_opt(<<Row(key, value)>>, put_options.sync, put_options.disable_wal)
  /\ ret' = [op |-> "put", options |-> put_options]
  /\ UNCHANGED <<exists, db_opts, pc, opts, it>>

\* A flush that drops the memtable instead of leaving it in place.
flush_dropping_memtable ==
  /\ pc = "open"
  /\ mem' = <<>>
  /\ unpersisted' = FALSE
  /\ ret' = [op |-> "flush", options |-> flush_options]
  /\ before_flush' = IF before_flush = <<>> THEN <<View>> ELSE before_flush
  /\ UNCHANGED <<exists, db_opts, pc, opts, sst, wal, synced, lock, it, used, last, before>>

\* WriteStore::flush: an empty batch, written with sync and with the log.
flush ==
  /\ pc = "open"
  /\ write_opt(<<>>, flush_options.sync, flush_options.disable_wal)
  /\ ret' = [op |-> "flush", options |-> flush_options]
  /\ before_flush' = IF before_flush = <<>> THEN <<View>> ELSE before_flush
  /\ UNCHANGED <<exists, db_opts, pc, opts, it, used, last, before>>

\* DBStore::compact: compact_range over the whole key space, which starts
\* with a flush of the memtable.
compact ==
  /\ pc = "open"
  /\ MemtableFlush
  /\ ret' = [op |-> "compact"]
  /\ UNCHANGED <<exists, db_opts, pc, opts, it, used, last, before, before_flush>>

\* The engine flushes a full write buffer in the background.
background_flush ==
  /\ pc = "open"
  /\ mem # <<>>
  /\ MemtableFlush
  /\ UNCHANGED <<exists, db_opts, pc, opts, ret, it, used, last, before, before_flush>>

\* An enable_compaction that does not drop the handle before it reopens.
enable_compaction_no_drop ==
  /\ pc = "open"
  /\ it.state = "idle"
  /\ opts' = [opts EXCEPT !.bulk_import = FALSE]
  /\ pc' = "reopen"
  /\ before' = View
  /\ before_flush' = <<>>
  /\ UNCHANGED <<sst, wal, synced, lock, mem, unpersisted, ret, it, used, last,
                 exists, db_opts>>

\* An enable_compaction that takes the handle by reference: it closes the
\* handle while another caller may be inside a call.
enable_compaction_by_ref ==
  /\ pc = "open"
  /\ DB_close
  /\ opts' = [opts EXCEPT !.bulk_import = FALSE]
  /\ pc' = "reopen"
  /\ before' = View
  /\ before_flush' = <<>>
  /\ db_opts' = NoDbOpts
  /\ UNCHANGED <<ret, it, used, last, exists>>

\* An enable_compaction that reopens with the options of the consumed handle
\* as they are (without opts.bulk_import = false).
enable_compaction_keeping_mode ==
  /\ pc = "open"
  /\ it.state = "idle"
  /\ DB_close
  /\ opts' = opts
  /\ pc' = "reopen"
  /\ before' = View
  /\ before_flush' = <<>>
  /\ db_opts' = NoDbOpts
  /\ UNCHANGED <<ret, it, used, last, exists>>

\* DBStore::enable_compaction up to drop(self): the options are cloned with
\* bulk_import cleared and the handle is closed. It takes self by value: no
\* other caller holds the handle.
enable_compaction_drop ==
  /\ pc = "open"
  /\ it.state = "idle"
  /\ DB_close
  /\ opts' = [opts EXCEPT !.bulk_import = FALSE]
  /\ pc' = "reopen"
  /\ before' = View
  /\ before_flush' = <<>>
  /\ db_opts' = NoDbOpts
  /\ UNCHANGED <<ret, it, used, last, exists>>

\* An enable_compaction that reopens with fresh options at another path.
enable_compaction_reopen_elsewhere ==
  /\ pc = "reopen"
  /\ open_opts([path |-> "alt", bulk_import |-> FALSE])
  /\ ret' = [op |-> "enable_compaction"]
  /\ UNCHANGED <<it, used, last, before, before_flush>>

\* DBStore::enable_compaction from the drop on: open_opts(opts), which
\* panics if the path still has an open handle.
enable_compaction_reopen ==
  /\ pc = "reopen"
  /\ IF lock[opts.path] = 0
       THEN /\ open_opts(opts)
            /\ ret' = [op |-> "enable_compaction"]
       ELSE /\ pc' = "panic"
            /\ ret' = [op |-> "open_rejected"]
            /\ UNCHANGED <<opts, sst, wal, synced, lock, mem, unpersisted, exists,
                           db_opts>>
  /\ UNCHANGED <<it, used, last, before, before_flush>>

\* A get that sets the default (empty) value under a key it does not find.
get_or_insert_default(key) ==
  /\ pc = "open"
  /\ ret' = [op |-> "get", key |-> key, val |-> get(View, key)]
  /\ mem' = IF get(View, key) = <<>> THEN TablePut(mem, Row(key, <<>>)) ELSE mem
  /\ UNCHANGED <<exists, db_opts, pc, opts, sst, wal, synced, lock, unpersisted, it,
                 used, last, before, before_flush>>

\* ReadStore::get on the handle
get_call(key) ==
  /\ pc = "open"
  /\ ret' = [op |-> "get", key |-> key, val |-> get(View, key)]
  /\ UNCHANGED <<exists, db_opts, pc, opts, sst, wal, synced, lock, mem, unpersisted, it, used,
                 last, before, before_flush>>

\* ReadStore::scan on the handle, run without another caller in between
scan_call(prefix) ==
  /\ pc = "open"
  /\ ret' = [op |-> "scan", prefix |-> prefix, rows |-> scan(View, prefix)]
  /\ UNCHANGED <<exists, db_opts, pc, opts, sst, wal, synced, lock, mem, unpersisted, it, used,
                 last, before, before_flush>>

\* DBStore::max_collision on the handle
max_collision_call(prefix) ==
  /\ pc = "open"
  /\ ret' = [op |-> "max_collision", prefix |-> prefix,
             reports |-> max_collision(View, prefix)]
  /\ UNCHANGED <<exists, db_opts, pc, opts, sst, wal, synced, lock, mem, unpersisted, it, used,
                 last, before, before_flush>>

\* A second caller inside ReadStore::scan: db.iterator(From(prefix, Forward))
\* reads the rows the handle held when the iterator was made (`at`, history:
\* the most recent sets at that time).
reader_seek(prefix) ==
  /\ pc = "open"
  /\ it.state = "idle"
  /\ it' = [state |-> "iter", prefix |-> prefix, snap |-> View,
            pos |-> Seek(View, prefix), rows |-> <<>>, at |-> last]
  /\ UNCHANGED <<exists, db_opts, pc, opts, sst, wal, synced, lock, mem, unpersisted, ret, used,
                 last, before, before_flush>>

\* The row the iterator of the second caller stands on (<<>>: not valid).
IterRow ==
  IF it.pos > Len(it.snap) THEN <<>> ELSE <<it.snap[it.pos]>>

\* One round of the for loop of scan: the end of the iterator, the break, or
\* one row pushed.
reader_next ==
  /\ pc \in {"open", "panic"}
  /\ it.state = "iter"
  /\ IF IterRow = <<>> \/ ~starts_with(IterRow[1].key, it.prefix)
       THEN it' = [it EXCEPT !.state = "done", !.snap = <<>>, !.pos = 0]
       ELSE it' = [it EXCEPT !.pos = @ + 1,
                             !.rows = Append(@, Row(IterRow[1].key, IterRow[1].value))]
  /\ UNCHANGED <<exists, db_opts, pc, opts, sst, wal, synced, lock, mem, unpersisted, ret, used,
                 last, before, before_flush>>

\* scan returns its rows to the second caller.
reader_return ==
  /\ it.state = "done"
  /\ it' = Idle
  /\ UNCHANGED <<exists, db_opts, pc, opts, sst, wal, synced, lock, mem, unpersisted, ret, used,
                 last, before, before_flush>>

\* write_opt(..).unwrap() in write when the engine reports an error: the batch
\* is not applied and the caller panics.
write_failed(rows) ==
  /\ pc = "open"
  /\ pc' = "panic"
  /\ ret' = [op |-> "write_failed"]
  /\ UNCHANGED <<opts, sst, wal, synced, lock, mem, unpersisted, it, used, last,
                 before, before_flush, exists, db_opts>>

\* The handle is dropped when its owner returns or unwinds: Drop for DBStore,
\* then the drop of the engine's handle.
shutdown ==
  /\ pc \in {"open", "panic"}
  /\ DB_close
  /\ pc' = "down"
  /\ opts' = NoOpts
  /\ ret' = NoRet
  /\ it' = Idle
  /\ last' = NeverSet
  /\ before' = <<>>
  /\ before_flush' = <<>>
  /\ db_opts' = NoDbOpts
  /\ UNCHANGED <<used, exists>>

\* The process dies without closing (a kill, a power loss): the memtable is
\* lost, of the log the forced part survives and any part of the rest.
crash ==
  /\ pc # "down"
  /\ \E n \in synced[opts.path]..Len(wal[opts.path]) :
       /\ wal' = [wal EXCEPT ![opts.path] = SubSeq(@, 1, n)]
       /\ synced' = [synced EXCEPT ![opts.path] = n]
  /\ lock' = [lock EXCEPT ![opts.path] = 0]
  /\ mem' = <<>>
  /\ unpersisted' = FALSE
  /\ pc' = "down"
  /\ opts' = NoOpts
  /\ ret' = NoRet
  /\ it' = Idle
  /\ last' = NeverSet
  /\ before' = <<>>
  /\ before_flush' = <<>>
  /\ db_opts' = NoDbOpts
  /\ UNCHANGED <<sst, used, exists>>

\* ------------------------------------------------- the store specification

\* The batches a caller may hand to write while n more rows may be set.
BatchesUpTo(n) == UNION {[1..i -> StoreRows] : i \in 0..n}

Open == open(db_path) /\ UNCHANGED procs

OpenLocked == (\E p \in Paths : open_locked(p)) /\ UNCHANGED procs

Write ==
  \E rows \in BatchesUpTo(MaxSets - used) :
    /\ write(rows)
    /\ used' = used + Len(rows)
    /\ last' = LastAfter(rows)
    /\ before_flush' = <<>>
    /\ UNCHANGED <<before, procs>>

Put ==
  \E k \in StoreKeys, v \in Values :
    /\ used < MaxSets
    /\ put(k, v)
    /\ used' = used + 1
    /\ last' = LastAfter(<<Row(k, v)>>)
    /\ before_flush' = <<>>
    /\ UNCHANGED <<before, procs>>

Flush == flush /\ UNCHANGED procs

Compact == compact /\ UNCHANGED procs

BackgroundFlush == background_flush /\ UNCHANGED procs

EnableCompactionDrop == enable_compaction_drop /\ UNCHANGED procs

EnableCompactionReopen == enable_compaction_reopen /\ UNCHANGED procs

Get == (\E k \in StoreKeys : get_call(k)) /\ UNCHANGED procs

Scan == (\E prefix \in StorePrefixes : scan_call(prefix)) /\ UNCHANGED procs

WriteFailed ==
  /\ \E rows \in BatchesUpTo(MaxSets - used) : write_failed(rows)
  /\ UNCHANGED procs

Shutdown == shutdown /\ UNCHANGED procs

Crash == crash /\ UNCHANGED procs

Next ==
  \/ Open
  \/ OpenLocked
  \/ Write
  \/ Put
  \/ Flush
  \/ Compact
  \/ BackgroundFlush
  \/ EnableCompactionDrop
  \/ EnableCompactionReopen
  \/ Get
  \/ Scan
  \/ WriteFailed
  \/ Shutdown
  \/ Crash

Spec == Init /\ [][Next]_vars

\* ------------------------------------------- the concurrent-reader specification

\* One caller writes and reads while a second caller is inside scan.

ReaderSeek == (\E prefix \in StorePrefixes : reader_seek(prefix)) /\ UNCHANGED procs

ReaderNext == reader_next /\ UNCHANGED procs

ReaderReturn == reader_return /\ UNCHANGED procs

NextReader ==
  \/ Open
  \/ Write
  \/ Put
  \/ Get
  \/ WriteFailed
  \/ ReaderSeek
  \/ ReaderNext
  \/ ReaderReturn

ReaderSpec == Init /\ [][NextReader]_vars

\* -------------------------------------------------------- the scan specification

\* The reads of a handle over every small set of stored keys: rows are loaded
\* in any order, then scan and max_collision run for every prefix.

\* tag + "AAAA", tag + "AAAB", tag + "BBBB" of P5, with T for the tag and the
\* bytes T and U for A and B.
P5Keys ==
  {T \o <<84, 84, 84, 84>>, T \o <<84, 84, 84, 85>>, T \o <<85, 85, 85, 85>>}

\* "T" + h1 and "T" + h2 of E2E-2: h1 and h2 share a run of 2 bytes.
E2EKeys == {T \o <<84, 85, 84>>, T \o <<84, 85, 85>>}

ScanKeys == StringsUpTo(MaxKeyLen) \cup P5Keys \cup E2EKeys

\* The value loaded under a key.
ValueOf(k) == <<Len(k)>>

Load ==
  \E k \in ScanKeys :
    /\ Len(View) < MaxRows
    /\ write(<<Row(k, ValueOf(k))>>)
    /\ UNCHANGED <<used, last, before, before_flush, procs>>

ScanPrefix == (\E prefix \in ScanKeys : scan_call(prefix)) /\ UNCHANGED procs

MaxCollisionTag == (\E prefix \in ScanKeys : max_collision_call(prefix)) /\ UNCHANGED procs

GetKey == (\E k \in ScanKeys : get_call(k)) /\ UNCHANGED procs

NextScan ==
  \/ Open
  \/ Load
  \/ ScanPrefix
  \/ MaxCollisionTag
  \/ GetKey

ScanSpec == Init /\ [][NextScan]_vars


\* ------------------------------------------------------ the server process

\* bin/electrs.rs: main and run_server. srv.pc is the line run_server stands
\* at; srv.iteration counts the iterations of the loop, srv.server the calls of
\* RPC::start, srv.steps lists the steps of the current iteration, srv.wait is
\* how the last signal.wait ended, srv.result what run_server returned and
\* srv.exit the exit status of the process (-1: it runs).

\* The rows the initial load and the updates write.
ServerRows == {Row(<<84>>, <<1>>), Row(<<84, 85>>, <<1>>)}

\* run_server returns Err(e) from a `?`.
return_err == [srv EXCEPT !.pc = "returned", !.result = "Err"]

\* main up to the first fallible call of run_server: Config::from_args,
\* Waiter::new, Metrics::new and metrics.start.
main_start ==
  /\ srv.pc = "off"
  /\ srv' = [srv EXCEPT !.pc = "daemon"]
  /\ UNCHANGED <<pc, opts, sst, wal, synced, lock, mem, unpersisted, ret, it, used,
                 last, before, before_flush, exists, db_opts, signal, tool>>

\* Daemon::new(..)?: the upstream connection is made or fails.
daemon_new ==
  /\ srv.pc = "daemon"
  /\ \/ srv' = [srv EXCEPT !.pc = "open"]
     \/ srv' = return_err
  /\ UNCHANGED <<pc, opts, sst, wal, synced, lock, mem, unpersisted, ret, it, used,
                 last, before, before_flush, exists, db_opts, signal, tool>>

\* let store = DBStore::open(&config.db_path)
server_open ==
  /\ srv.pc = "open"
  /\ open(db_path)
  /\ srv' = [srv EXCEPT !.pc = "index_load"]
  /\ UNCHANGED <<signal, tool>>

\* Index::load(&store, ..)?
index_load ==
  /\ srv.pc = "index_load"
  /\ \/ srv' = [srv EXCEPT !.pc = "initial_load"]
     \/ srv' = return_err
  /\ UNCHANGED <<pc, opts, sst, wal, synced, lock, mem, unpersisted, ret, it, used,
                 last, before, before_flush, exists, db_opts, signal, tool>>

\* The initial load writes rows through the bulk handle: index.update(&store,
\* &signal) or the import of bulk::index.
initial_load_write ==
  /\ srv.pc = "initial_load"
  /\ \E row \in ServerRows :
       /\ used < MaxSets
       /\ write(<<row>>)
       /\ used' = used + 1
       /\ last' = LastAfter(<<row>>)
  /\ before_flush' = <<>>
  /\ UNCHANGED <<before, srv, signal, tool>>

\* index.update(..)?, bulk::full_compaction(..)? or bulk::index(..)? fails.
initial_load_failed ==
  /\ srv.pc \in {"initial_load", "full_compaction"}
  /\ srv' = return_err
  /\ UNCHANGED <<pc, opts, sst, wal, synced, lock, mem, unpersisted, ret, it, used,
                 last, before, before_flush, exists, db_opts, signal, tool>>

\* The load is complete: what is left of either strategy is the full
\* compaction and the mode switch of the store it was handed.
initial_load_done ==
  /\ srv.pc = "initial_load"
  /\ srv' = [srv EXCEPT !.pc = "full_compaction"]
  /\ UNCHANGED <<pc, opts, sst, wal, synced, lock, mem, unpersisted, ret, it, used,
                 last, before, before_flush, exists, db_opts, signal, tool>>

\* The full compaction after the load: store.compact().
full_compaction ==
  /\ srv.pc = "full_compaction"
  /\ compact
  /\ srv' = [srv EXCEPT !.pc = "enable_compaction"]
  /\ UNCHANGED <<signal, tool>>

\* The mode switch after the load: store.enable_compaction(), whose result is
\* the store run_server goes on with.
mode_switch_drop ==
  /\ srv.pc = "enable_compaction"
  /\ enable_compaction_drop
  /\ UNCHANGED <<srv, signal, tool>>

mode_switch_reopen ==
  /\ srv.pc = "enable_compaction"
  /\ enable_compaction_reopen
  /\ srv' = [srv EXCEPT !.pc = "app_new"]
  /\ UNCHANGED <<signal, tool>>

\* App::new(store, index, daemon)?, then Query::new and `let mut server = None`
app_new ==
  /\ srv.pc = "app_new"
  /\ \/ srv' = [srv EXCEPT !.pc = "update", !.iteration = 1]
     \/ srv' = return_err
  /\ UNCHANGED <<pc, opts, sst, wal, synced, lock, mem, unpersisted, ret, it, used,
                 last, before, before_flush, exists, db_opts, signal, tool>>

\* One step of the loop body is done: it is added to the steps of the
\* iteration and run_server moves on to `next`.
step_done(step, next) ==
  [srv EXCEPT !.pc = next, !.steps = Append(@, step)]

\* An app.update whose error is logged and the loop continued with the next
\* iteration.
app_update_retrying ==
  /\ srv.pc = "update"
  /\ \/ srv' = step_done("update", "update_mempool")
     \/ srv' = [srv EXCEPT !.pc = "update", !.steps = <<>>, !.result = "Err"]
  /\ UNCHANGED <<pc, opts, sst, wal, synced, lock, mem, unpersisted, ret, it, used,
                 last, before, before_flush, exists, db_opts, signal, tool>>

\* app.update(&signal)?: the incremental updates are applied, which writes
\* the rows of new blocks, if any, through the handle; or the update fails.
app_update ==
  /\ srv.pc = "update"
  /\ \/ /\ srv' = step_done("update", "update_mempool")
        /\ UNCHANGED <<pc, opts, sst, wal, synced, lock, mem, unpersisted, ret, it,
                       used, last, before, before_flush, exists, db_opts>>
     \/ /\ srv' = step_done("update", "update_mempool")
        /\ \E row \in ServerRows :
             /\ used < MaxSets
             /\ write(<<row>>)
             /\ used' = used + 1
             /\ last' = LastAfter(<<row>>)
        /\ before_flush' = <<>>
        /\ UNCHANGED before
     \/ /\ srv' = return_err
        /\ UNCHANGED <<pc, opts, sst, wal, synced, lock, mem, unpersisted, ret, it,
                       used, last, before, before_flush, exists, db_opts>>
  /\ UNCHANGED <<signal, tool>>

\* query.update_mempool()?
update_mempool ==
  /\ srv.pc = "update_mempool"
  /\ \/ srv' = step_done("update_mempool", "notify")
     \/ srv' = return_err
  /\ UNCHANGED <<pc, opts, sst, wal, synced, lock, mem, unpersisted, ret, it, used,
                 last, before, before_flush, exists, db_opts, signal, tool>>

\* A notify that starts a query server in every iteration (Some(RPC::start(..))
\* in the place of get_or_insert_with).
notify_starting_anew ==
  /\ srv.pc = "notify"
  /\ srv' = [step_done("notify", "wait") EXCEPT !.server = @ + 1]
  /\ UNCHANGED <<pc, opts, sst, wal, synced, lock, mem, unpersisted, ret, it, used,
                 last, before, before_flush, exists, db_opts, signal, tool>>

\* server.get_or_insert_with(|| RPC::start(..)).notify(): the query server is
\* started when there is none (srv.server counts the calls of RPC::start), and
\* the subscribed clients are notified.
notify ==
  /\ srv.pc = "notify"
  /\ srv' = [step_done("notify", "wait") EXCEPT
               !.server = IF @ = 0 THEN 1 ELSE @]
  /\ UNCHANGED <<pc, opts, sst, wal, synced, lock, mem, unpersisted, ret, it, used,
                 last, before, before_flush, exists, db_opts, signal, tool>>

\* How signal.wait(Duration::from_secs(5)) can end: with a shutdown signal on
\* the channel it returns the signal as an error; with none, the timeout
\* expires (Ok) or the wait fails otherwise (an error).
Waiter_wait == IF signal = "raised" THEN {"signal"} ELSE {"timeout", "failure"}

Min(a, b) == IF a < b THEN a ELSE b

\* A wait whose error does not break the loop.
signal_wait_ignoring_err ==
  /\ srv.pc = "wait"
  /\ \E outcome \in Waiter_wait :
       srv' = [srv EXCEPT !.pc = "update", !.steps = <<>>, !.wait = outcome,
                          !.iteration = Min(@ + 1, MaxIterations)]
  /\ UNCHANGED <<pc, opts, sst, wal, synced, lock, mem, unpersisted, ret, it, used,
                 last, before, before_flush, exists, db_opts, signal, tool>>

\* if let Err(err) = signal.wait(..) { info!(..); break; } and the Ok(()) after
\* the loop; without an error the loop goes round.
signal_wait ==
  /\ srv.pc = "wait"
  /\ \E outcome \in Waiter_wait :
       IF outcome = "timeout"
         THEN srv' = [srv EXCEPT !.pc = "update", !.steps = <<>>, !.wait = outcome,
                                 !.iteration = Min(@ + 1, MaxIterations)]
         ELSE srv' = [srv EXCEPT !.pc = "returned", !.wait = outcome, !.result = "Ok"]
  /\ UNCHANGED <<pc, opts, sst, wal, synced, lock, mem, unpersisted, ret, it, used,
                 last, before, before_flush, exists, db_opts, signal, tool>>

\* A main that ends with status 0 whatever run_server returned.
main_exit_always_clean ==
  /\ srv.pc = "returned"
  /\ srv' = [srv EXCEPT !.pc = "exited", !.exit = 0]
  /\ IF pc = "down"
       THEN UNCHANGED <<pc, opts, sst, wal, synced, lock, mem, unpersisted, ret, it,
                        used, last, before, before_flush, exists, db_opts>>
       ELSE shutdown
  /\ UNCHANGED <<signal, tool>>

\* main after run_server returned: an error is logged and the process exits
\* with status 1, otherwise main returns (status 0). The process ends: its
\* handle, if it holds one, is closed or dies with it.
main_exit ==
  /\ srv.pc = "returned"
  /\ srv' = [srv EXCEPT !.pc = "exited", !.exit = IF srv.result = "Err" THEN 1 ELSE 0]
  /\ IF pc = "down"
       THEN UNCHANGED <<pc, opts, sst, wal, synced, lock, mem, unpersisted, ret, it,
                        used, last, before, before_flush, exists, db_opts>>
       ELSE shutdown \/ crash
  /\ UNCHANGED <<signal, tool>>

\* The environment raises the shutdown signal (SIGINT, SIGTERM) while the
\* server process runs.
raise_signal ==
  /\ srv.pc \notin {"off", "exited"}
  /\ signal = "none"
  /\ signal' = "raised"
  /\ UNCHANGED <<pc, opts, sst, wal, synced, lock, mem, unpersisted, ret, it, used,
                 last, before, before_flush, exists, db_opts, srv, tool>>

\* The steps of the loop body.
LoopSteps == {"update", "update_mempool", "notify", "wait"}

\* Another thread of the server process begins a scan on the store: a worker
\* of the initial load, or, once RPC::start has run, a thread of the query
\* server answering a client.
server_scan ==
  /\ \/ srv.pc = "initial_load"
     \/ srv.server > 0 /\ srv.pc \in LoopSteps
  /\ \E prefix \in StorePrefixes : reader_seek(prefix)
  /\ UNCHANGED procs

\* -------------------------------------------------- the server specification

\* The server process from its start to its exit, with a second caller of the
\* handle (a thread of the process) inside scan.

\* The steps of the server process itself.
ServerStep ==
  \/ main_start
  \/ daemon_new
  \/ server_open
  \/ index_load
  \/ initial_load_write
  \/ initial_load_failed
  \/ initial_load_done
  \/ full_compaction
  \/ mode_switch_drop
  \/ mode_switch_reopen
  \/ app_new
  \/ app_update
  \/ update_mempool
  \/ notify
  \/ signal_wait
  \/ main_exit

NextServer ==
  \/ main_start
  \/ daemon_new
  \/ server_open
  \/ index_load
  \/ initial_load_write
  \/ initial_load_failed
  \/ initial_load_done
  \/ full_compaction
  \/ mode_switch_drop
  \/ mode_switch_reopen
  \/ app_new
  \/ app_update
  \/ update_mempool
  \/ notify
  \/ signal_wait
  \/ main_exit
  \/ raise_signal
  \/ server_scan
  \/ ReaderNext
  \/ ReaderReturn

ServerSpec == Init /\ [][NextServer]_vars

\* The calls of run_server return and its waits are bounded by the timeout:
\* the server process takes its next step; and a scan that was begun runs to
\* its end (it reads finitely many rows).
FairServerSpec ==
  /\ ServerSpec
  /\ WF_vars(ServerStep)
  /\ WF_vars(ReaderNext \/ ReaderReturn)

\* --------------------------------------------------------- the collision tool

\* examples/txid_collisions.rs: main and run. tool.pc is the line run stands
\* at, tool.result how the process ended ("Ok": run returned Ok(()),
\* "panic"), tool.scanned the tag of the max_collision call made and what it
\* reported.

\* A run that does not look at the path before it opens the store.
tool_check_skipped ==
  /\ tool.pc = "off"
  /\ pc = "down"
  /\ tool' = [tool EXCEPT !.pc = "open"]
  /\ UNCHANGED <<pc, opts, sst, wal, synced, lock, mem, unpersisted, ret, it, used,
                 last, before, before_flush, exists, db_opts, srv, signal>>

\* if !config.db_path.exists() { panic!(..) }, in a tool that is started while
\* no process holds the dataset.
tool_check ==
  /\ tool.pc = "off"
  /\ pc = "down"
  /\ IF db_path \in exists
       THEN tool' = [tool EXCEPT !.pc = "open"]
       ELSE tool' = [tool EXCEPT !.pc = "exited", !.result = "panic"]
  /\ UNCHANGED <<pc, opts, sst, wal, synced, lock, mem, unpersisted, ret, it, used,
                 last, before, before_flush, exists, db_opts, srv, signal>>

\* let store = DBStore::open(&config.db_path)
tool_open ==
  /\ tool.pc = "open"
  /\ open(db_path)
  /\ tool' = [tool EXCEPT !.pc = "scan"]
  /\ UNCHANGED <<srv, signal>>

\* store.max_collision(b"T")
tool_scan ==
  /\ tool.pc = "scan"
  /\ max_collision_call(T)
  /\ tool' = [tool EXCEPT !.pc = "return",
                          !.scanned = <<[tag |-> T, reports |-> max_collision(View, T)]>>]
  /\ UNCHANGED <<srv, signal>>

\* Ok(()): run returns, the store is dropped, and main has no error to log.
tool_return ==
  /\ tool.pc = "return"
  /\ shutdown
  /\ tool' = [tool EXCEPT !.pc = "exited", !.result = "Ok"]
  /\ UNCHANGED <<srv, signal>>

\* ---------------------------------------------------- the tool specification

\* A process loads a dataset (or none does), then the tool is run on the path.

loader_open ==
  /\ tool.pc = "off"
  /\ open(db_path)
  /\ UNCHANGED procs

loader_write ==
  /\ tool.pc = "off"
  /\ \E k \in ScanKeys :
       /\ Len(View) < MaxRows
       /\ write(<<Row(k, ValueOf(k))>>)
  /\ UNCHANGED <<used, last, before, before_flush, procs>>

loader_close ==
  /\ tool.pc = "off"
  /\ shutdown
  /\ UNCHANGED procs

NextTool ==
  \/ loader_open
  \/ loader_write
  \/ loader_close
  \/ tool_check
  \/ tool_open
  \/ tool_scan
  \/ tool_return

ToolSpec == Init /\ [][NextTool]_vars

\* ------------------------------------------------ the failures of the engine

\* The engine reports an error (an I/O failure, a corruption) to a call of
\* store.rs. ret.op names the call that met it; a panic of the caller is
\* pc = "panic".

\* DB::open(..).unwrap() in open_opts on Err: nothing is opened.
open_failed(p) ==
  /\ pc = "down"
  /\ pc' = "panic"
  /\ ret' = [op |-> "open_failed"]
  /\ UNCHANGED <<opts, sst, wal, synced, lock, mem, unpersisted, it, used, last,
                 before, before_flush, exists, db_opts>>

\* self.db.get(key).unwrap() on Err
get_failed(key) ==
  /\ pc = "open"
  /\ pc' = "panic"
  /\ ret' = [op |-> "get_failed"]
  /\ UNCHANGED <<opts, sst, wal, synced, lock, mem, unpersisted, it, used, last,
                 before, before_flush, exists, db_opts>>

\* self.db.put(key, value).unwrap() on Err: the row is not set.
put_failed(key, value) ==
  /\ pc = "open"
  /\ pc' = "panic"
  /\ ret' = [op |-> "put_failed"]
  /\ UNCHANGED <<opts, sst, wal, synced, lock, mem, unpersisted, it, used, last,
                 before, before_flush, exists, db_opts>>

\* self.db.write_opt(empty, &opts).unwrap() in flush on Err
flush_failed ==
  /\ pc = "open"
  /\ pc' = "panic"
  /\ ret' = [op |-> "flush_failed"]
  /\ UNCHANGED <<opts, sst, wal, synced, lock, mem, unpersisted, it, used, last,
                 before, before_flush, exists, db_opts>>

\* The rows an iterator delivers when it fails after n rows of the table: it
\* stops being valid, as at the end of the table, and neither the iterator of
\* the for loop of scan nor iter.valid() of max_collision tells the two apart.
Delivered(t, n) == SubSeq(t, 1, n)

\* ReadStore::scan whose iterator fails: the for loop ends and the rows pushed
\* so far are returned.
scan_failed(prefix) ==
  /\ pc = "open"
  /\ \E n \in 0..Len(View) :
       ret' = [op |-> "scan_failed", prefix |-> prefix,
               rows |-> scan(Delivered(View, n), prefix)]
  /\ UNCHANGED <<exists, db_opts, pc, opts, sst, wal, synced, lock, mem, unpersisted,
                 it, used, last, before, before_flush>>

\* DBStore::max_collision whose iterator fails: the while loop ends and the
\* call returns.
max_collision_failed(prefix) ==
  /\ pc = "open"
  /\ \E n \in 0..Len(View) :
       ret' = [op |-> "max_collision_failed", prefix |-> prefix,
               reports |-> max_collision(Delivered(View, n), prefix)]
  /\ UNCHANGED <<exists, db_opts, pc, opts, sst, wal, synced, lock, mem, unpersisted,
                 it, used, last, before, before_flush>>

\* --------------------------------------------------- the fault specification

\* The calls of a handle, each with and without a failure of the engine.

OpenFailed == open_failed(db_path) /\ UNCHANGED procs

GetFailed == (\E k \in StoreKeys : get_failed(k)) /\ UNCHANGED procs

PutFailed == (\E k \in StoreKeys, v \in Values : put_failed(k, v)) /\ UNCHANGED procs

FlushFailed == flush_failed /\ UNCHANGED procs

ScanFailed == (\E prefix \in StorePrefixes : scan_failed(prefix)) /\ UNCHANGED procs

MaxCollisionFailed ==
  (\E prefix \in StorePrefixes : max_collision_failed(prefix)) /\ UNCHANGED procs

NextFault ==
  \/ Open
  \/ Put
  \/ Flush
  \/ Get
  \/ Scan
  \/ Shutdown
  \/ OpenFailed
  \/ GetFailed
  \/ PutFailed
  \/ WriteFailed
  \/ FlushFailed
  \/ ScanFailed
  \/ MaxCollisionFailed

FaultSpec == Init /\ [][NextFault]_vars

\* ------------------------------------------------------------- the claims

\* What the claims speak of, stated without the operators of the model.

\* Key k begins with the byte string p.
HasPrefix(k, p) ==
  /\ Len(p) <= Len(k)
  /\ \A i \in 1..Len(p) : k[i] = p[i]

\* Key a comes before key b in byte-lexicographic order.
BytewiseBefore(a, b) ==
  \E i \in 1..(Len(b)) :
    /\ \A j \in 1..(i - 1) : j <= Len(a) /\ a[j] = b[j]
    /\ \/ i = Len(a) + 1
       \/ i <= Len(a) /\ a[i] < b[i]

RowsOf(t) == {t[i] : i \in 1..Len(t)}

KeysOf(t) == {t[i].key : i \in 1..Len(t)}

SetMax(S) == CHOOSE x \in S : \A y \in S : y <= x

\* The length of the common leading byte run of a and b after their first n
\* bytes.
CommonAfter(a, b, n) ==
  SetMax({m \in 0..Len(a) :
            /\ n + m <= Len(a)
            /\ n + m <= Len(b)
            /\ \A i \in 1..m : a[n + i] = b[n + i]})

\* The pairs of distinct stored keys that start with tag.
TagPairs(tag) ==
  {pr \in KeysOf(View) \X KeysOf(View) :
     pr[1] # pr[2] /\ HasPrefix(pr[1], tag) /\ HasPrefix(pr[2], tag)}

\* The rows of the most recent sets `at` whose key starts with prefix.
SnapshotRows(at, prefix) ==
  {Row(k, at[k][1]) : k \in {x \in StoreKeys : at[x] # <<>> /\ HasPrefix(x, prefix)}}

\* C1: get(k) returns the value of the most recent set of k on the handle (in
\* one batch, of the row latest in the batch), and absent when k was never set.
LastWriterWins ==
  (pc = "open" /\ ret.op = "get") => ret.val = last[ret.key]

\* C1 witness: get returned the newer value of a key whose older value is in
\* the table files.
LastWriterWinsWitness ==
  /\ pc = "open"
  /\ ret.op = "get"
  /\ ret.val # <<>>
  /\ Lookup(sst[opts.path], ret.key) # <<>>
  /\ Lookup(sst[opts.path], ret.key) # ret.val

\* C2: scan(p) returns exactly the stored rows whose key starts with p, each
\* once, in ascending byte-lexicographic key order.
PrefixCorrectness ==
  ret.op = "scan" =>
    LET want == {r \in RowsOf(View) : HasPrefix(r.key, ret.prefix)}
    IN  /\ RowsOf(ret.rows) = want
        /\ Len(ret.rows) = Cardinality(want)
        /\ \A i, j \in 1..Len(ret.rows) :
             i < j => BytewiseBefore(ret.rows[i].key, ret.rows[j].key)

\* C2 witness: a scan that returned rows while a stored key shorter than the
\* prefix and a stored key of another prefix were left out.
PrefixCorrectnessWitness ==
  /\ ret.op = "scan"
  /\ ret.rows # <<>>
  /\ \E r \in RowsOf(View) : Len(r.key) < Len(ret.prefix)
  /\ \E r \in RowsOf(View) :
       Len(r.key) >= Len(ret.prefix) /\ ~HasPrefix(r.key, ret.prefix)

\* C3: the rows of the handle are at every instant, also after a failed
\* write, those of whole batches, and a scan that runs while batches are
\* written returns the rows of one such instant.
BatchAtomicity ==
  /\ pc \in {"open", "panic"} => \A k \in StoreKeys : get(View, k) = last[k]
  /\ it.state \in {"iter", "done"} =>
       RowsOf(it.rows) \subseteq SnapshotRows(it.at, it.prefix)
  /\ it.state = "done" =>
       /\ RowsOf(it.rows) = SnapshotRows(it.at, it.prefix)
       /\ Len(it.rows) = Cardinality(SnapshotRows(it.at, it.prefix))

\* C3 witness: a scan has returned rows while, after its iterator was made,
\* every key was set to another value.
BatchAtomicityWitness ==
  /\ it.state = "done"
  /\ it.rows # <<>>
  /\ \A k \in StoreKeys : it.at[k] # last[k]

\* C4: in durable mode a write or put that returned has used the log and
\* sync, and its rows are on stable storage.
ModeDurability ==
  (pc = "open" /\ ~opts.bulk_import /\ ret.op \in {"write", "put"}) =>
    /\ ~ret.options.disable_wal
    /\ ret.options.sync
    /\ Stable(opts.path) = View

\* C5: in bulk mode write uses neither the log nor sync, and put uses the
\* write options that write uses on the same handle.
PutFollowsWrite ==
  /\ (pc = "open" /\ opts.bulk_import /\ ret.op = "write") =>
       (ret.options.disable_wal /\ ~ret.options.sync)
  /\ (pc = "open" /\ ret.op = "put") => ret.options = write_options

\* C6: when flush has returned, every row of the handle is on stable storage.
FlushIsCheckpoint ==
  (pc = "open" /\ ret.op = "flush") => Stable(opts.path) = View

\* C7: the rows of the handle after any number of flush calls made since the
\* last write are the rows before the first of them.
FlushChangesNoData ==
  (pc = "open" /\ before_flush # <<>>) => View = before_flush[1]

\* C7 witness: flush has returned on a handle whose memtable holds rows that
\* are in no log.
FlushChangesNoDataWitness ==
  /\ pc = "open"
  /\ ret.op = "flush"
  /\ before_flush # <<>>
  /\ unpersisted
  /\ Len(mem) = 2

\* C8: the handle enable_compaction returns holds the rows the consumed
\* handle held, which are the most recent sets, and no other row.
TransitionPreservesData ==
  (pc = "open" /\ ret.op = "enable_compaction") =>
    /\ View = before
    /\ \A k \in StoreKeys : get(View, k) = last[k]

\* C8 witness: enable_compaction returned a durable handle that holds two
\* rows.
TransitionPreservesDataWitness ==
  /\ pc = "open"
  /\ ret.op = "enable_compaction"
  /\ ~opts.bulk_import
  /\ Len(View) = 2

\* C9: no path ever has more than one open handle, inside enable_compaction
\* the path has none before it is reopened, and an open that is refused
\* changes nothing of the dataset.
SingleHandle ==
  /\ [](\A p \in Paths : lock[p] <= 1)
  /\ [](pc = "reopen" => lock[opts.path] = 0)
  /\ [](pc = "open" => lock[opts.path] = 1)
  /\ [][(ret' # ret /\ ret'.op = "open_rejected") =>
          UNCHANGED <<sst, wal, synced, lock, mem, unpersisted>>]_vars

\* C9 witness: inside enable_compaction, after an open of the path was
\* refused, the old handle is closed and the dataset holds rows.
SingleHandleWitness ==
  /\ pc = "reopen"
  /\ ret.op = "open_rejected"
  /\ lock[opts.path] = 0
  /\ sst[opts.path] # <<>>

\* C10: the largest length max_collision(tag) reports (0 when it reports
\* nothing) is the maximum over all pairs of distinct stored keys with the tag
\* of their common run after the tag, the report of that length names such a
\* pair, and for the keys of P5 it is 3 however they were loaded.
CollisionMaximum ==
  ret.op = "max_collision" =>
    LET tag == ret.prefix
        n == Len(tag)
        lens == {ret.reports[i].len : i \in 1..Len(ret.reports)}
        largest == IF lens = {} THEN 0 ELSE SetMax(lens)
    IN  /\ TagPairs(tag) = {} => ret.reports = <<>>
        /\ TagPairs(tag) # {} =>
             largest = SetMax({CommonAfter(pr[1], pr[2], n) : pr \in TagPairs(tag)})
        /\ \A i \in 1..Len(ret.reports) :
             ret.reports[i].len = largest =>
               \E pr \in TagPairs(tag) :
                 /\ ret.reports[i].a = revhex(SliceFrom(pr[1], n))
                 /\ ret.reports[i].b = revhex(SliceFrom(pr[2], n))
                 /\ CommonAfter(pr[1], pr[2], n) = largest
        /\ (KeysOf(View) = P5Keys /\ tag = T) => largest = 3

\* C10 witness: max_collision(T) has reported over the three keys of P5.
CollisionMaximumWitness ==
  /\ ret.op = "max_collision"
  /\ ret.prefix = T
  /\ KeysOf(View) = P5Keys
  /\ ret.reports # <<>>

\* C11: in the serving loop a wait that timed out is followed by the next
\* iteration; a wait that the shutdown signal ended makes run_server return
\* Ok and the process end with status 0; and once the signal is raised the
\* loop eventually stops.
ServingLoopCancellation ==
  /\ [][(srv.pc = "wait" /\ srv' # srv /\ srv'.wait = "timeout") =>
          (signal = "none" /\ srv'.pc = "update" /\ srv'.result = "none")]_vars
  /\ [][(srv.pc = "wait" /\ srv' # srv /\ signal = "raised") =>
          (srv'.wait = "signal" /\ srv'.pc = "returned" /\ srv'.result = "Ok")]_vars
  /\ [](srv.wait = "signal" => srv.pc \in {"returned", "exited"} /\ srv.result = "Ok")
  /\ []((srv.pc = "exited" /\ srv.wait = "signal") => srv.exit = 0)
  /\ (signal = "raised") ~> (srv.pc \in {"returned", "exited"})

\* C11 witness: the process has ended with status 0 after a wait timed out, a
\* further iteration ran and the signal ended its wait.
ServingLoopCancellationWitness ==
  /\ srv.pc = "exited"
  /\ srv.iteration >= 2
  /\ srv.wait = "signal"
  /\ srv.exit = 0

\* C12: once a step of the startup or an update step of the loop returned an
\* error, run_server has returned that error and runs no further step; the
\* process then ends with a non-zero status; and it ends with status 0, never
\* with another, when the wait ended the loop.
ServerFailureExit ==
  /\ srv.result = "Err" => srv.pc \in {"returned", "exited"}
  /\ (srv.pc = "exited" /\ srv.result = "Err") => srv.exit > 0
  /\ srv.wait \in {"signal", "failure"} =>
       /\ srv.pc \in {"returned", "exited"}
       /\ srv.result = "Ok"
       /\ srv.pc = "exited" => srv.exit = 0

\* C12 witness: the process ended with status 1 on an error that the second
\* update step returned in a later iteration, with the query server started.
ServerFailureExitWitness ==
  /\ srv.pc = "exited"
  /\ srv.exit = 1
  /\ srv.result = "Err"
  /\ srv.iteration >= 2
  /\ srv.server = 1
  /\ srv.steps = <<"update">>

\* C13: the tool run on a path that does not exist panics at once: it opens
\* nothing, creates no dataset and runs no scan; run on a path that exists it
\* opens the store, calls max_collision with the tag T and ends with Ok, also
\* when nothing was reported.
ToolOnMissingPath ==
  /\ [][(tool.pc = "off" /\ tool' # tool) =>
          IF db_path \in exists
            THEN tool'.pc = "open"
            ELSE /\ tool'.pc = "exited"
                 /\ tool'.result = "panic"
                 /\ UNCHANGED <<exists, sst, wal, synced, lock, pc, ret>>]_vars
  /\ [](tool.result = "panic" =>
          /\ db_path \notin exists
          /\ sst[db_path] = <<>>
          /\ lock[db_path] = 0
          /\ tool.scanned = <<>>)
  /\ [](tool.pc \in {"scan", "return"} => pc = "open" /\ opts.path = db_path)
  /\ [](tool.pc = "return" => ret.op = "max_collision" /\ ret.prefix = T)
  /\ [](tool.pc = "exited" =>
          \/ tool.result = "panic" /\ tool.scanned = <<>>
          \/ /\ tool.result = "Ok"
             /\ Len(tool.scanned) = 1
             /\ tool.scanned[1].tag = T)

\* C13 witness: the tool has ended with a panic, the path still missing.
ToolOnMissingPathWitness ==
  /\ tool.pc = "exited"
  /\ tool.result = "panic"
  /\ db_path \notin exists
  /\ "alt" \notin exists

\* The calls that met a failure of the engine, as ret.op names them.
FailedCalls ==
  {"open_failed", "get_failed", "put_failed", "write_failed", "flush_failed",
   "scan_failed", "max_collision_failed"}

\* C14: a call that met a failure of the engine has not returned: its caller
\* panicked (and nothing was retried); in particular scan has returned no
\* row list and max_collision has not ended as if at the last key.
StorageErrorsEscalate ==
  ret.op \in FailedCalls => pc = "panic"

\* The stored keys that start with tag, in stored (ascending) order.
TaggedKeys(tag) ==
  LET sel == SelectSeq(View, LAMBDA r : HasPrefix(r.key, tag))
  IN  [i \in 1..Len(sel) |-> sel[i].key]

\* C15: in one max_collision(tag) pass the reports are those of the adjacent
\* pairs of keys whose common run after the tag is larger than that of every
\* pair before them in the pass and than 0, in the order of the pass; so the
\* reported lengths increase strictly and none is 0.
CollisionReportRule ==
  ret.op = "max_collision" =>
    LET tag == ret.prefix
        n == Len(tag)
        ks == TaggedKeys(tag)
        RunAt(i) == CommonAfter(ks[i], ks[i + 1], n)
        due == {i \in 1..(Len(ks) - 1) :
                  RunAt(i) > SetMax({0} \cup {RunAt(j) : j \in 1..(i - 1)})}
        Rank(i) == Cardinality({j \in due : j <= i})
    IN  /\ Len(ret.reports) = Cardinality(due)
        /\ \A i \in due :
             /\ ret.reports[Rank(i)].len = RunAt(i)
             /\ ret.reports[Rank(i)].a = revhex(SliceFrom(ks[i], n))
             /\ ret.reports[Rank(i)].b = revhex(SliceFrom(ks[i + 1], n))
        /\ \A i \in 1..Len(ret.reports) : ret.reports[i].len > 0
        /\ \A i, j \in 1..Len(ret.reports) :
             i < j => ret.reports[i].len < ret.reports[j].len

\* C16: while enable_compaction runs no scan is in flight on the handle and
\* no call is made on the consumed handle; and in the server process it runs
\* before the first iteration of the loop, so that the loop runs on the
\* durable handle, which is never exchanged during the loop.
TransitionExclusivity ==
  /\ [](pc = "reopen" => it.state = "idle")
  /\ [][pc = "reopen" =>
          /\ it' = it
          /\ ret' = ret \/ ret'.op \in {"enable_compaction", "open_rejected"}
          /\ pc' = "reopen" => UNCHANGED <<sst, wal, synced, mem, opts>>]_vars
  /\ [](pc = "reopen" =>
          srv.pc = "enable_compaction" /\ srv.iteration = 0 /\ srv.server = 0)
  /\ [](srv.pc \in LoopSteps => pc = "open" /\ ~opts.bulk_import)
  /\ [][srv.pc \in LoopSteps => opts' = opts \/ pc' = "down"]_vars

\* C16 witness: the server is inside enable_compaction, the consumed handle
\* closed, after rows were loaded.
TransitionExclusivityWitness ==
  /\ pc = "reopen"
  /\ srv.pc = "enable_compaction"
  /\ it.state = "idle"
  /\ Len(sst[db_path]) = 2

\* The steps of one iteration, in their order.
IterationSteps == <<"update", "update_mempool", "notify">>

\* C17: the steps of an iteration run in the order update, mempool refresh,
\* notify, wait; the query server is started by the notify step of the first
\* iteration, after its two update steps, and never again; and every
\* iteration whose update steps succeeded notifies.
ServingLoopStepOrder ==
  /\ [](srv.pc \in LoopSteps =>
          /\ srv.pc = "update" => srv.steps = <<>>
          /\ srv.pc = "update_mempool" => srv.steps = SubSeq(IterationSteps, 1, 1)
          /\ srv.pc = "notify" => srv.steps = SubSeq(IterationSteps, 1, 2)
          /\ srv.pc = "wait" => srv.steps = IterationSteps)
  /\ [](srv.server <= 1)
  /\ [](srv.server = 0 =>
          \/ srv.iteration = 0
          \/ srv.iteration = 1 /\ "notify" \notin {srv.steps[i] : i \in 1..Len(srv.steps)})
  /\ [][srv'.server # srv.server =>
          /\ srv.iteration = 1
          /\ srv.steps = SubSeq(IterationSteps, 1, 2)
          /\ srv'.steps = IterationSteps]_vars
  /\ [][(srv.pc = "update_mempool" /\ srv'.steps = SubSeq(IterationSteps, 1, 2)) =>
          srv'.pc = "notify"]_vars
  /\ [][(srv.pc = "notify" /\ srv' # srv) =>
          (srv'.pc = "wait" /\ srv'.steps = IterationSteps /\ srv'.server = 1)]_vars

\* C17 witness: a later iteration stands at its wait, its three steps done
\* and the query server started once.
ServingLoopStepOrderWitness ==
  /\ srv.pc = "wait"
  /\ srv.iteration >= 2
  /\ srv.steps = IterationSteps
  /\ srv.server = 1

\* C18: a get, a scan or a max_collision that returned has changed neither
\* the rows of the handle (the memtable over the table files of its path), nor
\* the log, nor the mode and the options of the handle.
ReadsSideEffectFree ==
  [][(ret' # ret /\ ret'.op \in {"get", "scan", "max_collision"}) =>
       /\ opts' = opts
       /\ db_opts' = db_opts
       /\ UNCHANGED <<sst, wal, synced, mem, unpersisted, lock, exists, pc>>]_vars

\* C18 witness: a get that found nothing has returned on a handle that holds
\* rows.
ReadsSideEffectFreeWitness ==
  /\ ret.op = "get"
  /\ ret.val = <<>>
  /\ Len(View) >= 2

\* C19: a handle open returned is in bulk mode with auto-compaction disabled;
\* a handle enable_compaction returned is in durable mode with
\* auto-compaction enabled, at the path of the handle it consumed, whatever
\* the mode of that handle; and as long as a handle is open its mode, its path
\* and the options of its engine stay as they are.
ModeLifecycle ==
  /\ []((pc = "open" /\ ret.op = "open") =>
          opts.bulk_import /\ db_opts.disable_auto_compactions)
  /\ []((pc = "open" /\ ret.op = "enable_compaction") =>
          ~opts.bulk_import /\ ~db_opts.disable_auto_compactions)
  /\ [](pc = "open" => db_opts.disable_auto_compactions = opts.bulk_import)
  /\ [][(pc = "open" /\ pc' = "reopen") => opts'.path = opts.path]_vars
  /\ [][(pc = "reopen" /\ pc' = "open") =>
          /\ opts'.path = opts.path
          /\ ~opts'.bulk_import
          /\ ~db_opts'.disable_auto_compactions]_vars
  /\ [][(pc = "open" /\ pc' = "open") => (opts' = opts /\ db_opts' = db_opts)]_vars

\* C19 witness: enable_compaction has consumed a handle that an earlier
\* enable_compaction returned (a durable one), with rows in the dataset.
ModeLifecycleWitness ==
  /\ pc = "reopen"
  /\ ret.op = "enable_compaction"
  /\ ~opts.bulk_import
  /\ sst[opts.path] # <<>>

\* C20: every report max_collision(tag) computes is that of two stored keys
\* that both start with the tag: their common run covers the tag, so the
\* length printed (the run less the tag) is not negative, and the suffixes
\* printed are the bytes of the two keys after the tag.
NoUnderflow ==
  ret.op = "max_collision" =>
    LET tag == ret.prefix
        n == Len(tag)
    IN  \A i \in 1..Len(ret.reports) :
          /\ ret.reports[i].len >= 0
          /\ \E pr \in TagPairs(tag) :
               /\ n <= Len(pr[1]) /\ n <= Len(pr[2])
               /\ ret.reports[i].len = CommonAfter(pr[1], pr[2], n)
               /\ n + ret.reports[i].len <= Len(pr[1])
               /\ n + ret.reports[i].len <= Len(pr[2])
               /\ ret.reports[i].a = revhex(SliceFrom(pr[1], n))
               /\ ret.reports[i].b = revhex(SliceFrom(pr[2], n))

\* C20 witness: max_collision has reported for a tag that is a whole stored
\* key, the suffix of that key being empty.
NoUnderflowWitness ==
  /\ ret.op = "max_collision"
  /\ ret.prefix # <<>>
  /\ ret.prefix \in KeysOf(View)
  /\ ret.reports # <<>>
  /\ ret.reports[1].a = <<>>

====
